---- MODULE Spec2Model ----
(***************************************************************************)
(* Tool-calling emulation of uniai: chatWithToolEmulation and its helpers  *)
(* (buildToolDecisionRequest, buildFinalRequest, buildToolDecisionPrompt,  *)
(* parseToolDecision, extractJSONPayload, toolExists, cloneChatRequest).   *)
(*                                                                         *)
(* Texts are sequences of lexemes.  A lexeme is a record [k, v]:           *)
(*   k = "p"    punctuation, v = <<c>> with c one of { } [ ] : ,           *)
(*   k = "s"    a JSON string literal, v = its characters                  *)
(*   k = "l"    a JSON literal, v = <<"null">>, <<"true">>, <<"false">>    *)
(*   k = "n"    a JSON number, v = <<digits>>: an integer in its shortest  *)
(*              decimal form, which encoding/json writes back unchanged    *)
(*   k = "ws"   a run of white space                                       *)
(*   k = "f"    the fence marker (three backquotes) outside a string       *)
(*   k = "w"    a word of prose, v = <<word>> (never valid JSON)           *)
(*   k = "u"    a string literal cut before its closing quote, v = the     *)
(*              characters left (never valid JSON)                         *)
(* Go strings (names, contents) are sequences of characters likewise.      *)
(* A character is one of the characters of CharOrder (" " is the blank;    *)
(* the two characters outside ASCII that encoding/json folds to a letter   *)
(* are named by their code points), Ticks (three backquotes in a row       *)
(* inside a string), or a word atom: a run of letters,                     *)
(* digits and "_" that stands where the code handles the string as a       *)
(* whole (tool names, contents, string values).  The keys of JSON objects  *)
(* that the code folds or sorts are spelled character by character.        *)
(* A string literal is one lexeme: braces, escapes and the characters      *)
(* json.Marshal escapes are outside the texts considered here.             *)
(***************************************************************************)
EXTENDS Integers, Sequences, FiniteSets, TLC

\* ------------------------------------------------------------------ lexemes
P(c) == [k |-> "p", v |-> <<c>>]
S(chars) == [k |-> "s", v |-> chars]
L(c) == [k |-> "l", v |-> <<c>>]
N(c) == [k |-> "n", v |-> <<c>>]
W(c) == [k |-> "w", v |-> <<c>>]
WS == [k |-> "ws", v |-> <<" ">>]
Ticks == "fence"
FENCE == [k |-> "f", v |-> <<Ticks>>]
LB == P("{")
RB == P("}")
LBK == P("[")
RBK == P("]")
COLON == P(":")
COMMA == P(",")
NULL == L("null")

\* ------------------------------------------------------- strings.TrimSpace
RECURSIVE TrimLeftWs(_)
TrimLeftWs(t) ==
  IF t # <<>> /\ Head(t).k = "ws" THEN TrimLeftWs(Tail(t)) ELSE t

RECURSIVE TrimLeftStr(_)
TrimLeftStr(s) ==
  IF s # <<>> /\ Head(s) = " " THEN TrimLeftStr(Tail(s)) ELSE s

RECURSIVE TrimRightStr(_)
TrimRightStr(s) ==
  IF s # <<>> /\ s[Len(s)] = " "
  THEN TrimRightStr(SubSeq(s, 1, Len(s) - 1))
  ELSE s

\* A cut string literal at the end of a text without the blanks at its end
\* (its opening quote stays).
TrimCutString(lex) == [k |-> "u", v |-> TrimRightStr(lex.v)]

\* White space at the end of a text: runs of white space, and the blanks
\* at the end of a cut string literal, which has no closing quote.
RECURSIVE TrimRightWs(_)
TrimRightWs(t) ==
  IF t = <<>> THEN t
  ELSE IF t[Len(t)].k = "ws" THEN TrimRightWs(SubSeq(t, 1, Len(t) - 1))
  ELSE IF t[Len(t)].k = "u"
  THEN SubSeq(t, 1, Len(t) - 1) \o <<TrimCutString(t[Len(t)])>>
  ELSE t

\* strings.TrimSpace on a text (a sequence of lexemes)
TrimSpace(t) == TrimRightWs(TrimLeftWs(t))

\* strings.TrimSpace on a Go string (a sequence of characters)
TrimSpaceStr(s) == TrimRightStr(TrimLeftStr(s))

\* ------------------------------------------------------------- json.Valid
RECURSIVE SkipWs(_, _)
SkipWs(t, i) ==
  IF i <= Len(t) /\ t[i].k = "ws" THEN SkipWs(t, i + 1) ELSE i

RECURSIVE ValueEnd(_, _), ObjectRest(_, _), ArrayRest(_, _), MembersEnd(_, _),
          AfterKey(_, _), AfterMemberValue(_, _), MemberSep(_, _),
          ElementsEnd(_, _), ElementSep(_, _)

\* The index just after the JSON value that starts at lexeme i, 0 if there
\* is no well-formed value there.
ValueEnd(t, i) ==
  IF i > Len(t) THEN 0
  ELSE IF t[i].k \in {"s", "l", "n"} THEN i + 1
  ELSE IF t[i] = LB THEN ObjectRest(t, SkipWs(t, i + 1))
  ELSE IF t[i] = LBK THEN ArrayRest(t, SkipWs(t, i + 1))
  ELSE 0

\* After "{": the closing brace or the members.
ObjectRest(t, j) ==
  IF j <= Len(t) /\ t[j] = RB THEN j + 1 ELSE MembersEnd(t, j)

\* After "[": the closing bracket or the elements.
ArrayRest(t, j) ==
  IF j <= Len(t) /\ t[j] = RBK THEN j + 1 ELSE ElementsEnd(t, j)

\* Members of an object from the key at lexeme j up to and including "}".
MembersEnd(t, j) ==
  IF j > Len(t) \/ t[j].k # "s" THEN 0 ELSE AfterKey(t, SkipWs(t, j + 1))

AfterKey(t, c) ==
  IF c > Len(t) \/ t[c] # COLON THEN 0
  ELSE AfterMemberValue(t, ValueEnd(t, SkipWs(t, c + 1)))

AfterMemberValue(t, e) == IF e = 0 THEN 0 ELSE MemberSep(t, SkipWs(t, e))

MemberSep(t, m) ==
  IF m > Len(t) THEN 0
  ELSE IF t[m] = RB THEN m + 1
  ELSE IF t[m] = COMMA THEN MembersEnd(t, SkipWs(t, m + 1))
  ELSE 0

\* Elements of an array from the value at lexeme j up to and including "]".
ElementsEnd(t, j) == ElementSep(t, ValueEnd(t, j))

ElementSep(t, e) ==
  IF e = 0 \/ SkipWs(t, e) > Len(t) THEN 0
  ELSE IF t[SkipWs(t, e)] = RBK THEN SkipWs(t, e) + 1
  ELSE IF t[SkipWs(t, e)] = COMMA THEN ElementsEnd(t, SkipWs(t, SkipWs(t, e) + 1))
  ELSE 0

\* The value ends at e and only white space follows.
EndsAt(t, e) == e # 0 /\ SkipWs(t, e) = Len(t) + 1

\* json.Valid: exactly one JSON value, white space allowed around it.
JSONValid(t) == EndsAt(t, ValueEnd(t, SkipWs(t, 1)))

\* ---------------------------------------------------------------- errors
NoErr == "nil"
ErrEmptyDecision == "empty tool decision"
ErrInvalidDecision == "invalid tool decision JSON"
ErrUnmarshal == "json: cannot unmarshal into Go value"
ErrToolNotString == "tool must be string or null"
ErrArgsInvalid == "tool arguments must be valid JSON"
ErrExpectedTool == "tool emulation expected a tool call but got null"
ErrToolNotFound == "tool not found in request"
ErrNoFunctionTools == "no function tools available for emulation"

\* ----------------------------------------------------- extractJSONPayload
\* The characters of a string before its first three backquotes.
RECURSIVE BeforeTicks(_)
BeforeTicks(chars) ==
  IF chars = <<>> \/ Head(chars) = Ticks THEN <<>>
  ELSE <<Head(chars)>> \o BeforeTicks(Tail(chars))

\* parts[1] of strings.SplitN(t, fence, 3) for a text t that starts with the
\* fence: what lies between the first fence and the next three backquotes
\* (or the end).  SplitN looks at bytes: backquotes inside a string literal
\* end the part as well and leave the literal cut.
RECURSIVE UpToFence(_)
UpToFence(t) ==
  IF t = <<>> \/ Head(t) = FENCE THEN <<>>
  ELSE IF Head(t).k = "s" /\ \E i \in 1..Len(Head(t).v) : Head(t).v[i] = Ticks
  THEN <<[k |-> "u", v |-> BeforeTicks(Head(t).v)]>>
  ELSE <<Head(t)>> \o UpToFence(Tail(t))

\* strings.TrimPrefix(t, "json")
TrimPrefixJson(t) ==
  IF t # <<>> /\ Head(t).k = "w" /\ Head(Head(t).v) = "json"
  THEN IF Len(Head(t).v) = 1 THEN Tail(t)
       ELSE <<[k |-> "w", v |-> Tail(Head(t).v)]>> \o Tail(t)
  ELSE t

\* strings.Index(t, "{"): 0 when absent (Go: -1), else the 1-based position
IndexLB(t) ==
  IF \E i \in 1..Len(t) : t[i] = LB
  THEN CHOOSE i \in 1..Len(t) : t[i] = LB /\ \A j \in 1..(i - 1) : t[j] # LB
  ELSE 0

\* strings.LastIndex(t, "}")
LastIndexRB(t) ==
  IF \E i \in 1..Len(t) : t[i] = RB
  THEN CHOOSE i \in 1..Len(t) : t[i] = RB /\ \A j \in (i + 1)..Len(t) : t[j] # RB
  ELSE 0

\* The brace scan: the text from the first "{" to the last "}".
BraceScan(trimmed, start, end) ==
  IF start >= 1 /\ end > start /\ JSONValid(SubSeq(trimmed, start, end))
  THEN [payload |-> SubSeq(trimmed, start, end), err |-> NoErr]
  ELSE [payload |-> <<>>, err |-> ErrInvalidDecision]

\* The text as it is if it is valid JSON, else the brace scan.
RecoverPayload(trimmed) ==
  IF JSONValid(trimmed) THEN [payload |-> trimmed, err |-> NoErr]
  ELSE BraceScan(trimmed, IndexLB(trimmed), LastIndexRB(trimmed))

\* The inside of a leading fenced block, without its language tag.
Unfence(trimmed) ==
  IF Head(trimmed) = FENCE
  THEN TrimSpace(TrimPrefixJson(TrimSpace(UpToFence(Tail(trimmed)))))
  ELSE trimmed

ExtractTrimmed(trimmed) ==
  IF trimmed = <<>> THEN [payload |-> <<>>, err |-> ErrEmptyDecision]
  ELSE RecoverPayload(Unfence(trimmed))

extractJSONPayload(text) == ExtractTrimmed(TrimSpace(text))

\* ------------------------------------------------------ parseToolDecision
\* The members of the object whose first key is lexeme j of p, in order, as
\* records [key, from, to]: the key's characters and the value's lexemes
\* p[from .. to-1].  p is valid JSON.
RECURSIVE MembersOf(_, _), MemberAt(_, _, _), MembersAfter(_, _, _, _)
MembersOf(p, j) == MemberAt(p, j, SkipWs(p, SkipWs(p, j + 1) + 1))

MemberAt(p, j, from) == MembersAfter(p, j, from, ValueEnd(p, from))

MembersAfter(p, j, from, to) ==
  <<[key |-> p[j].v, from |-> from, to |-> to]>> \o
  (IF p[SkipWs(p, to)] = COMMA
   THEN MembersOf(p, SkipWs(p, SkipWs(p, to) + 1))
   ELSE <<>>)

FirstKey(p, j) == IF p[j] = RB THEN <<>> ELSE MembersOf(p, j)

ObjectMembers(p) == FirstKey(p, SkipWs(p, SkipWs(p, 1) + 1))

\* encoding/json matches an object key to a struct field by its name,
\* ignoring case: the ASCII letters fold to one case, and so do the long s
\* (U+017F, to s) and the Kelvin sign (U+212A, to k).
UpperLetters ==
  <<"A", "B", "C", "D", "E", "F", "G", "H", "I", "J", "K", "L", "M",
    "N", "O", "P", "Q", "R", "S", "T", "U", "V", "W", "X", "Y", "Z">>
LowerLetters ==
  <<"a", "b", "c", "d", "e", "f", "g", "h", "i", "j", "k", "l", "m",
    "n", "o", "p", "q", "r", "s", "t", "u", "v", "w", "x", "y", "z">>
LongS == "U+017F"
KelvinSign == "U+212A"

FoldChar(c) ==
  IF \E i \in 1..Len(UpperLetters) : UpperLetters[i] = c
  THEN LowerLetters[CHOOSE i \in 1..Len(UpperLetters) : UpperLetters[i] = c]
  ELSE IF c = LongS THEN "s"
  ELSE IF c = KelvinSign THEN "k"
  ELSE c

\* An exact match, or else a match of the folded characters.
KeyMatches(key, field) ==
  \/ key = field
  \/ /\ Len(key) = Len(field)
     /\ \A i \in 1..Len(key) : FoldChar(key[i]) = FoldChar(field[i])

\* The names of the fields of the decision struct (their json tags).
FieldTool == <<"t", "o", "o", "l">>
FieldArguments == <<"a", "r", "g", "u", "m", "e", "n", "t", "s">>

Max(set) == CHOOSE x \in set : \A y \in set : y <= x

LastHit(p, ms, hits) ==
  IF hits = {} THEN <<>>
  ELSE SubSeq(p, ms[Max(hits)].from, ms[Max(hits)].to - 1)

\* The json.RawMessage a field of the decision struct holds after
\* json.Unmarshal: the value of the last member whose key matches, <<>>
\* (nil) when there is none.
FieldOf(p, ms, field) ==
  LastHit(p, ms, {i \in 1..Len(ms) : KeyMatches(ms[i].key, field)})

DecisionOf(p, ms) ==
  [Tool |-> FieldOf(p, ms, FieldTool),
   Arguments |-> FieldOf(p, ms, FieldArguments),
   err |-> NoErr]

\* json.Unmarshal(payload, &decision) for valid JSON: an object fills the
\* fields, null leaves them empty, any other value is a type error.
UnmarshalDecision(p) ==
  IF p[SkipWs(p, 1)] = LB THEN DecisionOf(p, ObjectMembers(p))
  ELSE IF p[SkipWs(p, 1)] = NULL
  THEN [Tool |-> <<>>, Arguments |-> <<>>, err |-> NoErr]
  ELSE [Tool |-> <<>>, Arguments |-> <<>>, err |-> ErrUnmarshal]

Decided(toolName, args, err) == [toolName |-> toolName, args |-> args, err |-> err]

\* The arguments of a named tool: {} when absent, and valid JSON.
WithArgs(toolName, args) ==
  IF ~JSONValid(args) THEN Decided(<<>>, <<>>, ErrArgsInvalid)
  ELSE Decided(toolName, args, NoErr)

NamedTool(decision, toolName) ==
  IF toolName = <<>> THEN Decided(<<>>, decision.Arguments, NoErr)
  ELSE WithArgs(toolName,
                IF decision.Arguments = <<>> THEN <<LB, RB>> ELSE decision.Arguments)

\* The raw tool values taken for "no tool decided": null and "".
NoToolRaw == {<<NULL>>, <<S(<<>>)>>}

\* The decision struct after a successful json.Unmarshal.
InterpretDecision(decision, toolRaw) ==
  IF decision.Tool = <<>> THEN Decided(<<>>, decision.Arguments, NoErr)
  ELSE IF toolRaw \in NoToolRaw
  THEN Decided(<<>>, decision.Arguments, NoErr)
  ELSE IF ~(Len(decision.Tool) = 1 /\ decision.Tool[1].k = "s")
  THEN Decided(<<>>, <<>>, ErrToolNotString)
  ELSE NamedTool(decision, TrimSpaceStr(decision.Tool[1].v))

AfterUnmarshal(decision) ==
  IF decision.err # NoErr THEN Decided(<<>>, <<>>, decision.err)
  ELSE InterpretDecision(decision, TrimSpace(decision.Tool))

AfterExtract(ex) ==
  IF ex.err # NoErr THEN Decided(<<>>, <<>>, ex.err)
  ELSE AfterUnmarshal(UnmarshalDecision(ex.payload))

parseToolDecision(text) == AfterExtract(extractJSONPayload(text))

\* ------------------------------------------------------------- data model
\* A nil pointer (*chat.ToolChoice, *chat.Result) and a nil error value.
Nil == [nil |-> TRUE]

RoleSystem == "system"
RoleUser == "user"
RoleAssistant == "assistant"

WarnEmulated == <<W("tool calls emulated")>>

\* chat.Message, chat.Tool: the fields the emulation reads or copies.
MsgWithCalls(role, content, toolCalls) ==
  [Role |-> role, Content |-> content, ToolCalls |-> toolCalls]
Msg(role, content) == MsgWithCalls(role, content, <<>>)
ToolDef(type, name, description, schema) ==
  [Type |-> type,
   Function |-> [Name |-> name, Description |-> description,
                 ParametersJSONSchema |-> schema]]
Tool(type, name) == ToolDef(type, name, <<>>, <<>>)
Choice(mode, name) == [Mode |-> mode, FunctionName |-> name]

\* ----------------------------------------------------------- toolExists
\* Mutant: the type of the tool is not looked at.
toolExists_AnyType(tools, name) ==
  \E i \in 1..Len(tools) : tools[i].Function.Name = name

toolExists(tools, name) ==
  \E i \in 1..Len(tools) :
    tools[i].Type = "function" /\ tools[i].Function.Name = name

\* ------------------------------------------------------ cloneChatRequest
\* A copy of the request with fresh Messages and Tools slices, a fresh
\* ToolChoice and fresh option maps; the values are the same.
cloneChatRequest(r) ==
  [Model |-> r.Model,
   Messages |-> <<>> \o r.Messages,
   Tools |-> <<>> \o r.Tools,
   ToolChoice |-> r.ToolChoice,
   Options |-> r.Options]

\* ----------------------------------------------- buildToolDecisionPrompt
RECURSIVE FunctionTools(_)
FunctionTools(tools) ==
  IF tools = <<>> THEN <<>>
  ELSE (IF Head(tools).Type = "function" THEN <<Head(tools)>> ELSE <<>>)
       \o FunctionTools(Tail(tools))

\* The characters of object keys in byte order (the two named characters
\* outside ASCII come after every ASCII character).
CharOrder ==
  <<" ", "$", "-", ".", "0", "1", "2", "3", "4", "5", "6", "7", "8", "9">>
  \o UpperLetters \o <<"_">> \o LowerLetters \o <<LongS, KelvinSign>>

CharRank(c) == CHOOSE i \in 1..Len(CharOrder) : CharOrder[i] = c

\* a < b for two Go strings, as json.Marshal orders the keys of a map.
RECURSIVE KeyLess(_, _)
KeyLess(a, b) ==
  IF a = <<>> THEN b # <<>>
  ELSE IF b = <<>> THEN FALSE
  ELSE IF Head(a) = Head(b) THEN KeyLess(Tail(a), Tail(b))
  ELSE CharRank(Head(a)) < CharRank(Head(b))

\* A member put into the members of a decoded object, which are kept in
\* the order of their keys: it takes the place of a member of the same key
\* (json.Unmarshal into a map keeps the last one).
RECURSIVE InsertMember(_, _)
InsertMember(m, sorted) ==
  IF sorted = <<>> THEN <<m>>
  ELSE IF Head(sorted).key = m.key THEN <<m>> \o Tail(sorted)
  ELSE IF KeyLess(m.key, Head(sorted).key) THEN <<m>> \o sorted
  ELSE <<Head(sorted)>> \o InsertMember(m, Tail(sorted))

RECURSIVE SortInto(_, _)
SortInto(ms, sorted) ==
  IF ms = <<>> THEN sorted
  ELSE SortInto(Tail(ms), InsertMember(Head(ms), sorted))

\* The members of a decoded object in the order json.Marshal writes them.
SortedMembers(ms) == SortInto(ms, <<>>)

\* json.Marshal of the value json.Unmarshal decodes into an "any" from the
\* JSON value at lexeme i of t: no white space, the keys of every object
\* sorted with the last member of each key kept, array elements in order.
RECURSIVE Reencode(_, _), EncodeMembers(_, _), EncodeElements(_, _),
          MoreElements(_, _)
Reencode(t, i) ==
  IF t[i] = LB
  THEN <<LB>> \o EncodeMembers(t, SortedMembers(FirstKey(t, SkipWs(t, i + 1))))
       \o <<RB>>
  ELSE IF t[i] = LBK
  THEN <<LBK>> \o EncodeElements(t, SkipWs(t, i + 1)) \o <<RBK>>
  ELSE <<t[i]>>

EncodeMembers(t, ms) ==
  IF ms = <<>> THEN <<>>
  ELSE <<S(Head(ms).key), COLON>> \o Reencode(t, Head(ms).from)
       \o (IF Tail(ms) = <<>> THEN <<>> ELSE <<COMMA>>)
       \o EncodeMembers(t, Tail(ms))

\* The elements of an array from lexeme j: an element or the closing "]".
EncodeElements(t, j) ==
  IF t[j] = RBK THEN <<>>
  ELSE Reencode(t, j) \o MoreElements(t, SkipWs(t, ValueEnd(t, j)))

MoreElements(t, m) ==
  IF t[m] = COMMA THEN <<COMMA>> \o EncodeElements(t, SkipWs(t, m + 1))
  ELSE <<>>

\* Parameters of a toolSpec: the schema decoded into an "any" when it is
\* not empty and decodes, nil otherwise; JSON null decodes to nil too.
\* The value is held as its encoding, <<>> for nil.
DecodeParameters(schema) ==
  IF schema = <<>> \/ ~JSONValid(schema) \/ TrimSpace(schema) = <<NULL>>
  THEN <<>>
  ELSE Reencode(schema, SkipWs(schema, 1))

\* The "parameters" member (omitempty): left out for a nil value.
ParametersMember(value) ==
  IF value = <<>> THEN <<>>
  ELSE <<COMMA, S(<<"parameters">>), COLON>> \o value

MarshalParameters(schema) == ParametersMember(DecodeParameters(schema))

\* The "description" member (omitempty): left out for an empty string.
MarshalDescription(description) ==
  IF description = <<>> THEN <<>>
  ELSE <<COMMA, S(<<"description">>), COLON, S(description)>>

\* json.Marshal of the toolSpec list:
\* [{"name":"a","description":"d","parameters":{}},{"name":"b"}]
RECURSIVE MarshalSpecs(_)
MarshalSpecs(specs) ==
  IF specs = <<>> THEN <<>>
  ELSE <<LB, S(<<"name">>), COLON, S(Head(specs).Function.Name)>>
       \o MarshalDescription(Head(specs).Function.Description)
       \o MarshalParameters(Head(specs).Function.ParametersJSONSchema)
       \o <<RB>>
       \o (IF Tail(specs) = <<>> THEN <<>> ELSE <<COMMA>>)
       \o MarshalSpecs(Tail(specs))

NL == [k |-> "ws", v |-> <<"\n">>]

RECURSIVE JoinLines(_)
JoinLines(lines) ==
  IF lines = <<>> THEN <<>>
  ELSE Head(lines) \o (IF Tail(lines) = <<>> THEN <<>> ELSE <<NL>>)
       \o JoinLines(Tail(lines))

ChoiceDirective(choice) ==
  IF choice = Nil THEN <<>>
  ELSE IF choice.Mode = "none"
  THEN << <<W("You MUST NOT call any tool. Return tool=null.")>> >>
  ELSE IF choice.Mode = "required"
  THEN << <<W("You MUST call a tool. tool must not be null.")>> >>
  ELSE IF choice.Mode = "function" /\ choice.FunctionName # <<>>
  THEN << <<W("You MUST call the tool named"), S(choice.FunctionName)>> >>
  ELSE <<>>

PromptLines(tools, choice) ==
  << <<W("You are a tool-calling engine.")>>,
     <<W("When you need a tool, output ONLY JSON:")>>,
     <<W("{tool: get_weather, arguments: {city: Tokyo}}")>>,
     <<W("If no tool needed, output:")>>,
     <<W("{tool: null, arguments: {}}")>>,
     <<W("Available tools (JSON):"), LBK>> \o MarshalSpecs(tools) \o <<RBK>> >>
  \o ChoiceDirective(choice)

PromptFor(tools, choice) ==
  IF Len(tools) = 0 THEN [prompt |-> <<>>, err |-> ErrNoFunctionTools]
  ELSE [prompt |-> JoinLines(PromptLines(tools, choice)), err |-> NoErr]

buildToolDecisionPrompt(r) == PromptFor(FunctionTools(r.Tools), r.ToolChoice)

\* ---------------------------------------------- buildToolDecisionRequest
DecisionRequestWith(p, out) ==
  IF p.err # NoErr THEN [req |-> Nil, err |-> p.err]
  ELSE [req |-> [out EXCEPT !.Tools = <<>>,
                            !.ToolChoice = Nil,
                            !.Options.ToolsEmulation = FALSE,
                            !.Messages = <<Msg(RoleSystem, p.prompt)>> \o @],
        err |-> NoErr]

buildToolDecisionRequest(r) ==
  DecisionRequestWith(buildToolDecisionPrompt(r), cloneChatRequest(r))

\* ------------------------------------------------------ buildFinalRequest
\* Mutant: the tool choice is left in the final request.
buildFinalRequest_KeepChoice(r) ==
  [cloneChatRequest(r) EXCEPT !.Tools = <<>>, !.Options.ToolsEmulation = FALSE]

buildFinalRequest(r) ==
  [cloneChatRequest(r) EXCEPT !.Tools = <<>>,
                              !.ToolChoice = Nil,
                              !.Options.ToolsEmulation = FALSE]

\* ------------------------------------------------------- requests in memory
\* The heap is a sequence of objects and an address is an index into it.
\* Its objects are request structs, backing arrays of slices, pointees and
\* maps.  A slice is a header [arr, len] (arr = 0: nil) and a pointer or a
\* map is an address (0: nil), wherever they stand: in the request struct
\* (Messages, Tools, ToolChoice), in its Options (Stop, Temperature,
\* OpenAI), in a message (ToolCalls), in a tool (ParametersJSONSchema) and
\* in a map (the nested map under "metadata").  Copying a struct or an
\* array element copies the headers and addresses in it, not what they
\* refer to.
NilSlice == [arr |-> 0, len |-> 0]

\* The elements of a slice as they lie in its array.
SliceVal(objs, sl) == IF sl.arr = 0 THEN <<>> ELSE SubSeq(objs[sl.arr], 1, sl.len)

\* A message, a tool, a map and the options by value.
MsgVal(objs, m) == MsgWithCalls(m.Role, m.Content, SliceVal(objs, m.ToolCalls))

ToolVal(objs, t) ==
  ToolDef(t.Type, t.Function.Name, t.Function.Description,
          SliceVal(objs, t.Function.ParametersJSONSchema))

MapVal(objs, a) ==
  IF a = 0 THEN Nil ELSE [objs[a] EXCEPT !.metadata = objs[@]]

OptionsVal(objs, o) ==
  [ToolsEmulation |-> o.ToolsEmulation,
   Stop |-> SliceVal(objs, o.Stop),
   Temperature |-> IF o.Temperature = 0 THEN Nil ELSE objs[o.Temperature],
   OpenAI |-> MapVal(objs, o.OpenAI)]

\* The request a *chat.Request points to, by value.
Deref(objs, a) ==
  [Model |-> objs[a].Model,
   Messages |-> [i \in 1..objs[a].Messages.len |->
                   MsgVal(objs, objs[objs[a].Messages.arr][i])],
   Tools |-> [i \in 1..objs[a].Tools.len |->
                ToolVal(objs, objs[objs[a].Tools.arr][i])],
   ToolChoice |-> IF objs[a].ToolChoice = 0 THEN Nil ELSE objs[objs[a].ToolChoice],
   Options |-> OptionsVal(objs, objs[a].Options)]

\* A slice of n elements whose array lies at address a; nil when empty.
SliceOf(a, n) == IF n = 0 THEN NilSlice ELSE [arr |-> a, len |-> n]

\* The caller's request r laid out from address 1: the struct, the arrays
\* of Messages, Tools and Stop, the temperature, the option map and its
\* nested map, then the ToolCalls array of each message, the schema of
\* each tool, and the ToolChoice.
CallerStruct(r, base) ==
  [Model |-> r.Model,
   Messages |-> [arr |-> 2, len |-> Len(r.Messages)],
   Tools |-> [arr |-> 3, len |-> Len(r.Tools)],
   ToolChoice |-> IF r.ToolChoice = Nil THEN 0
                  ELSE base + Len(r.Messages) + Len(r.Tools) + 1,
   Options |-> [ToolsEmulation |-> r.Options.ToolsEmulation,
                Stop |-> SliceOf(4, Len(r.Options.Stop)),
                Temperature |-> 5,
                OpenAI |-> 6]]

CallerObjs(r) ==
  <<CallerStruct(r, 7),
    [i \in 1..Len(r.Messages) |->
       MsgWithCalls(r.Messages[i].Role, r.Messages[i].Content,
                    SliceOf(7 + i, Len(r.Messages[i].ToolCalls)))],
    [i \in 1..Len(r.Tools) |->
       ToolDef(r.Tools[i].Type, r.Tools[i].Function.Name,
               r.Tools[i].Function.Description,
               SliceOf(7 + Len(r.Messages) + i,
                       Len(r.Tools[i].Function.ParametersJSONSchema)))],
    r.Options.Stop,
    r.Options.Temperature,
    [r.Options.OpenAI EXCEPT !.metadata = 7],
    r.Options.OpenAI.metadata>>
  \o [i \in 1..Len(r.Messages) |-> r.Messages[i].ToolCalls]
  \o [i \in 1..Len(r.Tools) |-> r.Tools[i].Function.ParametersJSONSchema]
  \o (IF r.ToolChoice = Nil THEN <<>> ELSE <<r.ToolChoice>>)

\* cloneJSONMap: nil for a map without entries, else a new map with the
\* same entries (a nested map is an entry: its address is copied).
cloneJSONMapAt(objs, a) == IF a = 0 THEN <<>> ELSE <<objs[a]>>

\* Where the copies of the ToolChoice and of the option map come to lie,
\* n being the size of the heap before the copy.
ChoiceCopyAt(s, n) == IF s.ToolChoice = 0 THEN 0 ELSE n + 3

MapCopyAt(s, n) ==
  IF s.Options.OpenAI = 0 THEN 0
  ELSE IF s.ToolChoice = 0 THEN n + 3 ELSE n + 4

\* out := *req with fresh Messages and Tools arrays, a fresh ToolChoice and
\* a fresh option map; the copy is the last object of the heap that
\* results.  The elements of the arrays and the Options are copied as they
\* are, so the ToolCalls of a message, the schema of a tool, the Stop
\* array, the temperature and the nested map are the caller's.
CloneWith(objs, s, n) ==
  objs \o <<SliceVal(objs, s.Messages), SliceVal(objs, s.Tools)>>
  \o (IF s.ToolChoice = 0 THEN <<>> ELSE <<objs[s.ToolChoice]>>)
  \o cloneJSONMapAt(objs, s.Options.OpenAI)
  \o <<[s EXCEPT !.Messages = [arr |-> n + 1, len |-> s.Messages.len],
                 !.Tools = [arr |-> n + 2, len |-> s.Tools.len],
                 !.ToolChoice = ChoiceCopyAt(s, n),
                 !.Options.OpenAI = MapCopyAt(s, n)]>>

\* cloneChatRequest on the heap.
cloneChatRequestAt(objs, a) == CloneWith(objs, objs[a], Len(objs))

\* out.Tools = nil; out.ToolChoice = nil; out.Options.ToolsEmulation = false
ClearToolsAt(objs, out) ==
  [objs EXCEPT ![out].Tools = NilSlice,
               ![out].ToolChoice = 0,
               ![out].Options.ToolsEmulation = FALSE]

\* out.Messages = append([]chat.Message{{system, prompt}}, out.Messages...)
PrependSystemAt(objs, out, prompt) ==
  [Append(objs, <<MsgWithCalls(RoleSystem, prompt, NilSlice)>>
                \o SliceVal(objs, objs[out].Messages))
     EXCEPT ![out].Messages = [arr |-> Len(objs) + 1, len |-> @.len + 1]]

\* The heap with its bookkeeping: the addresses of the copies made, and the
\* number of writes made through them by whoever holds them.
Cloned(mem, objs) == [mem EXCEPT !.objs = objs, !.clones = Append(@, Len(objs))]

Last(seq) == seq[Len(seq)]

ClearedClone(mem) == [mem EXCEPT !.objs = ClearToolsAt(@, Last(mem.clones))]

WithPrompt(mem, prompt) ==
  [mem EXCEPT !.objs = PrependSystemAt(@, Last(mem.clones), prompt)]

buildFinalRequestAt(mem, a) == ClearedClone(Cloned(mem, cloneChatRequestAt(mem.objs, a)))

DecisionRequestAtWith(mem, a, p) ==
  IF p.err # NoErr THEN mem
  ELSE WithPrompt(buildFinalRequestAt(mem, a), p.prompt)

buildToolDecisionRequestAt(mem, a) ==
  DecisionRequestAtWith(mem, a, buildToolDecisionPrompt(Deref(mem.objs, a)))

\* What a step of chatWithToolEmulation does to the heap: the request it
\* hands to the provider next is built from the caller's, at address 1.
MemStep(mem, k) ==
  IF k.pc = "decision" THEN buildToolDecisionRequestAt(mem, 1)
  ELSE IF k.pc = "final" THEN buildFinalRequestAt(mem, 1)
  ELSE mem

\* ----------------------------------------------------------- input domains
MaxMsgs == 2
MaxTools == 2

Str(c) == S(<<c>>)
GetWeather == <<"get_weather">>
OtherTool == <<"other_tool">>
Lookup == <<"lookup">>
Missing == <<"missing">>

\* A tool call of an earlier turn, kept in the conversation.
PriorCall ==
  [ID |-> <<"call_1">>, Type |-> "function",
   Function |-> [Name |-> GetWeather, Arguments |-> <<LB, RB>>]]

MsgPool ==
  {Msg(RoleSystem, <<W("Be brief.")>>), Msg(RoleUser, <<W("Weather in Tokyo?")>>),
   MsgWithCalls(RoleAssistant, <<>>, <<PriorCall>>)}

\* {"type": "object", "properties": {}}
WeatherSchema ==
  <<LB, S(<<"t", "y", "p", "e">>), COLON, WS, S(<<"object">>), COMMA, WS,
    S(<<"p", "r", "o", "p", "e", "r", "t", "i", "e", "s">>), COLON, WS, LB, RB,
    RB>>

ToolPool ==
  {ToolDef("function", GetWeather, <<>>, WeatherSchema),
   ToolDef("function", OtherTool, <<"desc">>, <<WS, NULL>>),
   Tool("retrieval", Lookup)}

SeqsUpTo(pool, n) == UNION {[1..m -> pool] : m \in 0..n}

\* No message stands twice in a conversation.
MsgLists ==
  {ms \in SeqsUpTo(MsgPool, MaxMsgs) :
     \A i, j \in 1..Len(ms) : i # j => ms[i] # ms[j]}

\* The options of every request considered: a stop sequence, a
\* temperature (in tenths) behind its pointer, and a provider option map
\* with a nested map.
RequestOptions ==
  [ToolsEmulation |-> TRUE,
   Stop |-> <<"END">>,
   Temperature |-> 7,
   OpenAI |-> [seed |-> 7, metadata |-> [tag |-> "a"]]]

\* Tool names are unique within a request.
ToolLists ==
  {ts \in SeqsUpTo(ToolPool, MaxTools) :
     \A i, j \in 1..Len(ts) : i # j => ts[i] # ts[j]}

ToolChoices ==
  {Nil, Choice("auto", <<>>), Choice("none", <<>>), Choice("required", <<>>),
   Choice("function", GetWeather), Choice("function", OtherTool)}

Requests ==
  {[Model |-> "m0", Messages |-> ms, Tools |-> ts, ToolChoice |-> tc,
    Options |-> RequestOptions] :
     ms \in MsgLists, ts \in ToolLists, tc \in ToolChoices}

\* Decision objects as a model may write them.
KeyTool == S(FieldTool)
KeyArguments == S(FieldArguments)
KeyTools == S(<<"t", "o", "o", "l", "s">>)
KeyCity == S(<<"c", "i", "t", "y">>)
ArgsTokyo == <<LB, KeyCity, COLON, WS, Str("Tokyo"), RB>>
ArgsEmpty == <<LB, RB>>

CallJSON(name, arguments) ==
  <<LB, KeyTool, COLON, WS, S(name), COMMA, WS, KeyArguments, COLON, WS>>
  \o arguments \o <<RB>>

ToolOnly(value) == <<LB, KeyTool, COLON>> \o value \o <<RB>>

NoCallJSON ==
  <<LB, KeyTool, COLON, WS, NULL, COMMA, WS, KeyArguments, COLON, WS,
    LB, RB, RB>>

ToolsArrayJSON(elems) == <<LB, KeyTools, COLON, WS, LBK>> \o elems \o <<RBK, RB>>

TokyoCall == CallJSON(GetWeather, ArgsTokyo)

\* {"tool": "get_weather", "arguments": {"city": "Tokyo <three backquotes>now"}}
TicksCall ==
  CallJSON(GetWeather, <<LB, KeyCity, COLON, WS, S(<<"Tokyo", " ", Ticks, "now">>), RB>>)

Payloads ==
  {TokyoCall, CallJSON(OtherTool, ArgsEmpty), CallJSON(Lookup, ArgsEmpty),
   CallJSON(Missing, ArgsEmpty), CallJSON(<<" ", "get_weather", " ">>, ArgsTokyo),
   ToolOnly(<<S(GetWeather)>>), ToolOnly(<<S(OtherTool)>>),
   <<LB, KeyTool, COLON, S(GetWeather), COMMA, KeyArguments, COLON, NULL, RB>>,
   NoCallJSON, ToolOnly(<<NULL>>), ToolOnly(<<S(<<>>)>>), ToolOnly(<<S(<<" ">>)>>),
   ToolOnly(<<Str("null")>>), <<LB, RB>>, <<NULL>>,
   <<LB, KeyArguments, COLON, LB, RB, RB>>,
   ToolsArrayJSON(TokyoCall), ToolsArrayJSON(<<>>),
   ToolOnly(<<N("1")>>), ToolOnly(<<L("true")>>), ToolOnly(<<LB, RB>>),
   ToolOnly(<<LBK, S(GetWeather), RBK>>),
   <<LBK, RBK>>, <<S(GetWeather)>>, <<N("1")>>, TicksCall,
   <<LB, KeyTool, COLON, S(GetWeather), COMMA, S(<<"T", "o", "o", "l">>), COLON, NULL, RB>>,
   <<LB, S(<<"t", "O", "o", "l">>), COLON, S(OtherTool), COMMA,
     S(<<"A", "R", "G", "U", "M", "E", "N", "T", "s">>), COLON, LB, RB, RB>>}

Fenced(j) == <<FENCE, NL>> \o j \o <<NL, FENCE>>
FencedJson(j) == <<FENCE, W("json"), NL>> \o j \o <<NL, FENCE>>
ProseFenced(j) == <<W("Sure!"), WS, FENCE, W("json"), NL>> \o j \o <<NL, FENCE>>
FencedThenProse(j) == <<FENCE, W("json"), NL>> \o j \o <<NL, FENCE, WS, W("Done.")>>
InProse(j) == <<W("I'll call"), WS>> \o j \o <<WS, W("now")>>
Padded(j) == <<WS, NL>> \o j \o <<NL>>
ProseWithBraces(j) == <<W("use"), WS, LB, W("x"), RB, WS>> \o j
BracedProseFenced(j) ==
  <<W("use"), WS, LB, W("x"), RB, WS, FENCE, W("json"), NL>> \o j \o <<NL, FENCE>>

\* Decision objects of every kind of Payloads, in the wrappings a model
\* puts around its answer.
WrappedObjects ==
  {TokyoCall, NoCallJSON, TicksCall, ToolOnly(<<S(GetWeather)>>),
   CallJSON(<<" ", "get_weather", " ">>, ArgsTokyo),
   <<LB, S(<<"t", "O", "o", "l">>), COLON, S(OtherTool), COMMA,
     S(<<"A", "R", "G", "U", "M", "E", "N", "T", "s">>), COLON, LB, RB, RB>>}

Wrapped ==
  UNION {{Fenced(j), FencedJson(j), ProseFenced(j), InProse(j)} :
           j \in WrappedObjects}
  \cup UNION {{FencedThenProse(j), Padded(j), ProseWithBraces(j),
               BracedProseFenced(j)} : j \in {TokyoCall, NoCallJSON}}

Answer == <<W("It is sunny.")>>

Junk ==
  {<<>>, <<WS, NL>>, <<W("not json at all")>>, Answer, <<LB, W("not json"), RB>>,
   <<FENCE, FENCE>>, SubSeq(TokyoCall, 1, Len(TokyoCall) - 1)}

DecisionTexts == Payloads \cup Wrapped \cup Junk

\* What the provider returns.
Meta1 == [Model |-> "m1", Usage |-> [TotalTokens |-> 11], Raw |-> "raw1"]
Meta2 == [Model |-> "m2", Usage |-> [TotalTokens |-> 22], Raw |-> "raw2"]

Result(text, toolCalls, warnings, meta) ==
  [Text |-> text, Model |-> meta.Model, ToolCalls |-> toolCalls,
   Messages |-> <<>>, Usage |-> meta.Usage, Raw |-> meta.Raw,
   Warnings |-> warnings]

NativeCall ==
  [ID |-> <<"call_1">>, Type |-> "function",
   Function |-> [Name |-> GetWeather, Arguments |-> ArgsTokyo]]

ProviderWarning == <<W("provider warning")>>

ProviderResults ==
  {Result(t, <<>>, <<>>, Meta1) : t \in DecisionTexts} \cup
  {Result(Answer, <<>>, <<>>, Meta2),
   Result(Answer, <<>>, <<ProviderWarning>>, Meta1),
   Result(Answer, <<NativeCall>>, <<>>, Meta1),
   Result(<<>>, <<NativeCall>>, <<>>, Meta2),
   Result(TokyoCall, <<>>, <<ProviderWarning>>, Meta2),
   Result(NoCallJSON, <<>>, <<ProviderWarning>>, Meta2),
   Result(CallJSON(OtherTool, ArgsEmpty), <<NativeCall>>, <<>>, Meta2)}

UpstreamErrs == {"upstream: context deadline exceeded", "upstream: status 500"}

\* Provider.Chat returns either (nil, err) or (result, nil).
Outcomes ==
  {[result |-> r, err |-> NoErr] : r \in ProviderResults} \cup
  {[result |-> Nil, err |-> e] : e \in UpstreamErrs}

\* time.Now().UnixNano()
NanoTimes == {1700000001, 1700000002}

\* -------------------------------------------------- chatWithToolEmulation
\* The function runs up to a provider call (c.chatOnce), blocks until the
\* provider returns, and goes on from there.  Each piece is an operator that
\* yields what the function does next: issue a provider call and wait at pc,
\* or return (result, err) to the caller.
NotReturned == [result |-> Nil, err |-> NoErr]
CallProvider(at, request) == [pc |-> at, call |-> request, ret |-> NotReturned]
Return(result, err) == [pc |-> "done", call |-> Nil, ret |-> [result |-> result, err |-> err]]

\* fmt.Sprintf("emulated_%d", now)
FormatCallID(now) == <<"emulated_", ToString(now)>>

EmulatedCall(toolName, args, now) ==
  [ID |-> FormatCallID(now), Type |-> "function",
   Function |-> [Name |-> toolName, Arguments |-> args]]

\* Mutant: the decision text is kept in the synthesized result.
EmulatedResult_KeepText(decisionResp, call) ==
  [Text |-> decisionResp.Text, Model |-> decisionResp.Model, ToolCalls |-> <<call>>,
   Messages |-> <<[Role |-> RoleAssistant, ToolCalls |-> <<call>>]>>,
   Usage |-> decisionResp.Usage, Raw |-> decisionResp.Raw,
   Warnings |-> <<WarnEmulated>>]

EmulatedResult(decisionResp, call) ==
  [Text |-> <<>>, Model |-> decisionResp.Model, ToolCalls |-> <<call>>,
   Messages |-> <<[Role |-> RoleAssistant, ToolCalls |-> <<call>>]>>,
   Usage |-> decisionResp.Usage, Raw |-> decisionResp.Raw,
   Warnings |-> <<WarnEmulated>>]

\* Mutant: a request that cannot be built fails with an empty result.
SendDecision_ResultWithError(d) ==
  IF d.err # NoErr THEN Return(Result(<<>>, <<>>, <<>>, Meta1), d.err)
  ELSE CallProvider("decision", d.req)

\* From the entry to the first provider call.
SendDecision(d) ==
  IF d.err # NoErr THEN Return(Nil, d.err) ELSE CallProvider("decision", d.req)

\* Mutant: a request without tools is not passed through.
Entry_NoPassThrough(r) == SendDecision(buildToolDecisionRequest(r))

Entry(r) ==
  IF Len(r.Tools) = 0 THEN CallProvider("passthrough", r)
  ELSE SendDecision(buildToolDecisionRequest(r))

\* return c.chatOnce(ctx, providerName, req)
AfterPassthrough(o) == Return(o.result, o.err)

\* Mutant: a missing tool is an error under "required" only.
Decide_RequiredOnly(r, decisionResp, d, now) ==
  IF d.err # NoErr THEN Return(Nil, d.err)
  ELSE IF d.toolName = <<>>
  THEN IF r.ToolChoice # Nil /\ r.ToolChoice.Mode = "required"
       THEN Return(Nil, ErrExpectedTool)
       ELSE CallProvider("final", buildFinalRequest(r))
  ELSE IF ~toolExists(r.Tools, d.toolName)
  THEN Return(Nil, ErrToolNotFound)
  ELSE Return(EmulatedResult(decisionResp, EmulatedCall(d.toolName, d.args, now)),
              NoErr)

\* After the parse: enforce the tool choice, then the final call or the
\* synthesized tool call.
Decide(r, decisionResp, d, now) ==
  IF d.err # NoErr THEN Return(Nil, d.err)
  ELSE IF d.toolName = <<>>
  THEN IF r.ToolChoice # Nil /\ r.ToolChoice.Mode \in {"required", "function"}
       THEN Return(Nil, ErrExpectedTool)
       ELSE CallProvider("final", buildFinalRequest(r))
  ELSE IF ~toolExists(r.Tools, d.toolName)
  THEN Return(Nil, ErrToolNotFound)
  ELSE Return(EmulatedResult(decisionResp, EmulatedCall(d.toolName, d.args, now)),
              NoErr)

\* Mutant: the provider's error is wrapped.
AfterDecision_WrapError(r, o, now) ==
  IF o.err # NoErr THEN Return(Nil, "tool emulation: decision call failed")
  ELSE Decide(r, o.result, parseToolDecision(o.result.Text), now)

\* From the return of the decision call to the final call or the return.
AfterDecision(r, o, now) ==
  IF o.err # NoErr THEN Return(Nil, o.err)
  ELSE Decide(r, o.result, parseToolDecision(o.result.Text), now)

\* Mutant: a failed final call is tried again.
AfterFinal_RetryOnError(finalReq, o) ==
  IF o.err # NoErr THEN CallProvider("final", finalReq)
  ELSE Return([o.result EXCEPT !.Warnings = Append(@, WarnEmulated)], o.err)

\* From the return of the final call to the return; finalReq is the request
\* of that call.
AfterFinal(finalReq, o) ==
  Return(IF o.result # Nil
         THEN [o.result EXCEPT !.Warnings = Append(@, WarnEmulated)]
         ELSE o.result,
         o.err)

\* ------------------------------------------------------------ the machine
VARIABLES
  req,           \* the caller's request
  pc,            \* "start", "passthrough", "decision", "final" or "done"
  calls,         \* the requests handed to the provider, in order
  replies,       \* what the provider returned, in order
  decisionResp,  \* the local decisionResp
  decision,      \* the locals toolName, args and err of the parse
  ret,           \* what the invocation returned, once pc = "done"
  mem            \* the heap: the caller's request and the copies made of it

vars == <<req, pc, calls, replies, decisionResp, decision, ret, mem>>

Init ==
  /\ req \in Requests
  /\ pc = "start"
  /\ calls = <<>>
  /\ replies = <<>>
  /\ decisionResp = Nil
  /\ decision = [toolName |-> <<>>, args |-> <<>>, err |-> NoErr]
  /\ ret = NotReturned
  /\ mem = [objs |-> CallerObjs(req), clones |-> <<>>, writes |-> 0]

Apply(k) ==
  /\ pc' = k.pc
  /\ calls' = IF k.call = Nil THEN calls ELSE Append(calls, k.call)
  /\ ret' = k.ret
  /\ mem' = MemStep(mem, k)

Invoke ==
  /\ pc = "start"
  /\ Apply(Entry(req))
  /\ UNCHANGED <<req, replies, decisionResp, decision>>

PassthroughReturn ==
  /\ pc = "passthrough"
  /\ \E o \in Outcomes :
       /\ replies' = Append(replies, o)
       /\ Apply(AfterPassthrough(o))
  /\ UNCHANGED <<req, decisionResp, decision>>

DecisionReturn ==
  /\ pc = "decision"
  /\ \E o \in Outcomes, now \in NanoTimes :
       /\ replies' = Append(replies, o)
       /\ decisionResp' = o.result
       /\ decision' = IF o.err = NoErr THEN parseToolDecision(o.result.Text)
                      ELSE decision
       /\ Apply(AfterDecision(req, o, now))
  /\ UNCHANGED req

FinalReturn ==
  /\ pc = "final"
  /\ \E o \in Outcomes :
       /\ replies' = Append(replies, o)
       /\ Apply(AfterFinal(calls[Len(calls)], o))
  /\ UNCHANGED <<req, decisionResp, decision>>

Next == Invoke \/ PassthroughReturn \/ DecisionReturn \/ FinalReturn

Spec == Init /\ [][Next]_vars

\* ----------------------------------------------- the invocation, in memory
\* The same invocation seen through the heap alone: each step reads the
\* caller's request where it lies and builds the next request there.
\* Whoever holds a copy (the provider a built request was handed to, or
\* package code that called cloneChatRequest on the caller's request once
\* the invocation has returned) may write through it at any time.  The
\* providers of the repository only read the request they are handed, so
\* no write is made through the caller's own request on the pass-through
\* path.
MaxWrites == 1

CallerRequest == Deref(mem.objs, 1)

Overwritten == <<W("overwritten")>>

MemApply(k) ==
  /\ pc' = k.pc
  /\ mem' = MemStep(mem, k)
  /\ UNCHANGED <<req, calls, replies, decisionResp, decision, ret>>

CloneCall ==
  /\ pc = "done"
  /\ mem.writes = 0
  /\ \A c \in 1..Len(mem.clones) : mem.objs[mem.clones[c]].Tools = NilSlice
  /\ mem' = Cloned(mem, cloneChatRequestAt(mem.objs, 1))
  /\ UNCHANGED <<req, pc, calls, replies, decisionResp, decision, ret>>

MemInvoke ==
  /\ pc = "start"
  /\ MemApply(Entry(CallerRequest))

MemPassthroughReturn ==
  /\ pc = "passthrough"
  /\ \E o \in Outcomes : MemApply(AfterPassthrough(o))

MemDecisionReturn ==
  /\ pc = "decision"
  /\ \E o \in Outcomes, now \in NanoTimes :
       MemApply(AfterDecision(CallerRequest, o, now))

MemFinalReturn ==
  /\ pc = "final"
  /\ \E o \in Outcomes :
       MemApply(AfterFinal(Deref(mem.objs, Last(mem.clones)), o))

\* The writes of the holder of the copy at address out that stay in the
\* copy: out.Messages[i] = ..., out.Tools[i] = ..., out.ToolChoice.Mode =
\* ..., out.Model = ..., out.Options.OpenAI["seed"] = ...
Written(objs) == [mem EXCEPT !.writes = @ + 1, !.objs = objs]

WriteOwn(out) ==
  \/ \E i \in 1..mem.objs[out].Messages.len :
       mem' = Written([mem.objs EXCEPT ![mem.objs[out].Messages.arr][i] =
                         MsgWithCalls(RoleUser, Overwritten, NilSlice)])
  \/ \E i \in 1..mem.objs[out].Tools.len :
       mem' = Written([mem.objs EXCEPT ![mem.objs[out].Tools.arr][i] =
                         ToolDef("function", <<"overwritten">>, <<>>, NilSlice)])
  \/ /\ mem.objs[out].ToolChoice # 0
     /\ mem' = Written([mem.objs EXCEPT ![mem.objs[out].ToolChoice].Mode =
                          "overwritten"])
  \/ mem' = Written([mem.objs EXCEPT ![out].Model = "overwritten"])
  \/ /\ mem.objs[out].Options.OpenAI # 0
     /\ mem' = Written([mem.objs EXCEPT ![mem.objs[out].Options.OpenAI].seed = 0])

\* The writes through what the elements and the Options of the copy refer
\* to: out.Messages[i].ToolCalls[j].ID = ...,
\* out.Tools[i].Function.ParametersJSONSchema[k] = ...,
\* out.Options.Stop[k] = ..., *out.Options.Temperature = ...,
\* out.Options.OpenAI["metadata"]["tag"] = ...
ToolCallsOf(out, i) == mem.objs[mem.objs[out].Messages.arr][i].ToolCalls

SchemaOf(out, i) ==
  mem.objs[mem.objs[out].Tools.arr][i].Function.ParametersJSONSchema

WriteNested(out) ==
  \/ \E i \in 1..mem.objs[out].Messages.len :
       \E j \in 1..ToolCallsOf(out, i).len :
         mem' = Written([mem.objs EXCEPT ![ToolCallsOf(out, i).arr][j].ID =
                           <<"overwritten">>])
  \/ \E i \in 1..mem.objs[out].Tools.len :
       \E k \in 1..SchemaOf(out, i).len :
         mem' = Written([mem.objs EXCEPT ![SchemaOf(out, i).arr][k] = RB])
  \/ \E k \in 1..mem.objs[out].Options.Stop.len :
       mem' = Written([mem.objs EXCEPT ![mem.objs[out].Options.Stop.arr][k] =
                         "overwritten"])
  \/ /\ mem.objs[out].Options.Temperature # 0
     /\ mem' = Written([mem.objs EXCEPT ![mem.objs[out].Options.Temperature] = 0])
  \/ /\ mem.objs[out].Options.OpenAI # 0
     /\ mem' = Written([mem.objs EXCEPT
                          ![mem.objs[mem.objs[out].Options.OpenAI].metadata].tag =
                            "overwritten"])

WriteAt(out) == WriteOwn(out) \/ WriteNested(out)

WriteThroughClone ==
  /\ mem.writes < MaxWrites
  /\ \E c \in 1..Len(mem.clones) : WriteAt(mem.clones[c])
  /\ UNCHANGED <<req, pc, calls, replies, decisionResp, decision, ret>>

MemNext ==
  \/ CloneCall
  \/ MemInvoke
  \/ MemPassthroughReturn
  \/ MemDecisionReturn
  \/ MemFinalReturn
  \/ WriteThroughClone

MemSpec == Init /\ [][MemNext]_vars

\* ------------------------------------------------------- claim vocabulary
Emulating == Len(req.Tools) > 0
Mode == IF req.ToolChoice = Nil THEN "unset" ELSE req.ToolChoice.Mode
DecisionReplied == Emulating /\ Len(replies) >= 1 /\ replies[1].err = NoErr
NamesTool == DecisionReplied /\ decision.err = NoErr /\ decision.toolName # <<>>
NamesNoTool == DecisionReplied /\ decision.err = NoErr /\ decision.toolName = <<>>
IsFunctionTool(name) ==
  \E i \in 1..Len(req.Tools) :
    req.Tools[i].Type = "function" /\ req.Tools[i].Function.Name = name
PcRank(at) ==
  CASE at = "start" -> 0
    [] at \in {"passthrough", "decision"} -> 1
    [] at = "final" -> 2
    [] OTHER -> 3

\* C1: a request without tools makes exactly one provider call, with the
\* request as given, and returns that call's result and error as its own.
C1_ToolLessPassThrough ==
  ~Emulating =>
    /\ pc = "start" => calls = <<>>
    /\ pc # "start" => calls = <<req>>
    /\ pc = "done" => /\ Len(replies) = 1
                      /\ ret.result = replies[1].result
                      /\ ret.err = replies[1].err

C1_Witness ==
  /\ ~Emulating /\ pc = "done" /\ calls = <<req>>
  /\ ret.err = NoErr /\ ret.result.ToolCalls # <<>>

\* C2: with tools, the first provider call (the probe) carries the request
\* unchanged, and a probe result that has tool calls is returned unchanged
\* with no second provider call.
C2_ProbeUnchanged ==
  Emulating =>
    /\ Len(calls) >= 1 => calls[1] = req
    /\ (Len(replies) >= 1 /\ replies[1].err = NoErr
        /\ replies[1].result.ToolCalls # <<>>) =>
         /\ pc = "done"
         /\ Len(calls) = 1
         /\ ret = [result |-> replies[1].result, err |-> NoErr]

\* C3: an invocation makes at most two provider calls, the decision call
\* and then the final call, the second only after the first has returned,
\* and it never goes back to an earlier step.
C3_AtMostTwoSequentialCalls ==
  /\ [](/\ Len(calls) <= 2
        /\ Len(calls) - Len(replies) \in {0, 1}
        /\ Len(calls) = 2 => /\ calls[1] = buildToolDecisionRequest(req).req
                             /\ calls[2] = buildFinalRequest(req)
        /\ pc = "done" => Len(calls) = Len(replies))
  /\ [][PcRank(pc') > PcRank(pc) /\ Len(calls') >= Len(calls)]_vars

C3_Witness == pc = "done" /\ Len(calls) = 2 /\ Len(replies) = 2

\* C4: a provider error, of the decision call or of the final call, ends
\* the invocation: the same error is returned and no provider call follows.
C4_UpstreamErrorPropagated ==
  \A i \in 1..Len(replies) :
    replies[i].err # NoErr =>
      /\ pc = "done"
      /\ Len(replies) = i
      /\ Len(calls) = i
      /\ ret.err = replies[i].err

C4_Witness ==
  /\ pc = "done" /\ Len(calls) = 2 /\ Len(replies) = 2
  /\ replies[2].err \in UpstreamErrs /\ ret.err = replies[2].err

\* C5: under tool choice none, a decision that names a tool fails with the
\* policy violation error and returns no tool call.
ErrViolatedNone == "tool emulation violated tool_choice=none"
PolicyViolationErrs == {ErrViolatedNone, ErrExpectedTool}

C5_NoneRejectsTool ==
  (pc = "done" /\ Mode = "none" /\ NamesTool) =>
    /\ ret.err \in PolicyViolationErrs
    /\ ret.result = Nil

\* C6: under tool choice required or function, a decision that names no
\* tool (null, empty or absent) fails, and the final call is never issued.
NoToolExamples ==
  {NoCallJSON, ToolOnly(<<NULL>>), ToolOnly(<<S(<<>>)>>), ToolOnly(<<S(<<" ">>)>>),
   <<LB, KeyArguments, COLON, LB, RB, RB>>, <<LB, RB>>,
   FencedJson(NoCallJSON), InProse(NoCallJSON)}

C6_RequiredNeedsTool ==
  (Mode \in {"required", "function"} /\ DecisionReplied /\
   (NamesNoTool \/ replies[1].result.Text \in NoToolExamples)) =>
    /\ pc = "done"
    /\ ret.err # NoErr
    /\ ret.result = Nil
    /\ Len(calls) = 1

C6_Witness ==
  /\ Mode = "function" /\ DecisionReplied /\ pc = "done"
  /\ replies[1].result.Text = ToolOnly(<<S(<<" ">>)>>)
  /\ ret.err = ErrExpectedTool

\* C7: under tool choice function with target N, a decision that names
\* another tool fails, and a synthesized tool call is only ever for N.
C7_FunctionTargetOnly ==
  (pc = "done" /\ Mode = "function" /\ NamesTool) =>
    /\ decision.toolName # req.ToolChoice.FunctionName =>
         (ret.err # NoErr /\ ret.result = Nil)
    /\ (ret.result # Nil /\ ret.result.ToolCalls # <<>>) =>
         ret.result.ToolCalls[1].Function.Name = req.ToolChoice.FunctionName

\* C8 (as claimed): a decided tool that is accepted yields a result with
\* exactly that one tool call, no text, the decision call's model, usage
\* and raw payload, the single warning, and no further provider call; and
\* whatever an emulation returns, tool calls come with empty text.
EmulatedShape ==
  (pc = "done" /\ NamesTool /\ IsFunctionTool(decision.toolName)) =>
    /\ ret.err = NoErr
    /\ ret.result # Nil
    /\ Len(ret.result.ToolCalls) = 1
    /\ ret.result.ToolCalls[1].Function.Name = decision.toolName
    /\ ret.result.ToolCalls[1].Function.Arguments = decision.args
    /\ ret.result.Text = <<>>
    /\ ret.result.Model = replies[1].result.Model
    /\ ret.result.Usage = replies[1].result.Usage
    /\ ret.result.Raw = replies[1].result.Raw
    /\ ret.result.Warnings = <<WarnEmulated>>
    /\ Len(calls) = 1
    /\ Len(replies) = 1

C8_ToolCallsImplyNoText ==
  /\ EmulatedShape
  /\ (pc = "done" /\ Emulating /\ ret.result # Nil /\ ret.result.ToolCalls # <<>>) =>
       ret.result.Text = <<>>

\* C8 (amended): the same result shape for an accepted tool; a result whose
\* tool call the invocation synthesized has empty text, while the result of
\* the final call keeps the text and the tool calls the provider returned.
C8_SynthesizedCallHasNoText ==
  /\ EmulatedShape
  /\ (pc = "done" /\ Emulating /\ ret.result # Nil /\ Len(calls) = 1) =>
       (ret.result.ToolCalls # <<>> /\ ret.result.Text = <<>>)
  /\ (pc = "done" /\ Emulating /\ ret.result # Nil /\ Len(calls) = 2) =>
       /\ ret.result.Text = replies[2].result.Text
       /\ ret.result.ToolCalls = replies[2].result.ToolCalls

C8_Witness ==
  /\ pc = "done" /\ NamesTool /\ ret.err = NoErr
  /\ replies[1].result = Result(TokyoCall, <<>>, <<ProviderWarning>>, Meta2)
  /\ ret.result.ToolCalls[1].Function = [Name |-> GetWeather, Arguments |-> ArgsTokyo]
  /\ ret.result.Model = "m2"
  /\ ret.result.Warnings = <<WarnEmulated>>

\* C9: a decision for no tool under a tool choice that allows it (auto,
\* unset, none) leads to one final call, with the original messages in
\* order and without tools and tool choice, whose result is returned with
\* the warning appended after the provider's own warnings.
C9_FinalCallAfterNoTool ==
  (NamesNoTool /\ Mode \in {"unset", "auto", "none"}) =>
    /\ pc \in {"final", "done"}
    /\ Len(calls) = 2
    /\ calls[2].Messages = req.Messages
    /\ calls[2].Tools = <<>>
    /\ calls[2].ToolChoice = Nil
    /\ calls[2].Model = req.Model
    /\ pc = "done" =>
         /\ Len(replies) = 2
         /\ ret.err = replies[2].err
         /\ replies[2].result = Nil => ret.result = Nil
         /\ replies[2].result # Nil =>
              ret.result = [replies[2].result EXCEPT
                              !.Warnings = replies[2].result.Warnings \o <<WarnEmulated>>]

C9_Witness ==
  /\ NamesNoTool /\ Mode = "none" /\ pc = "done"
  /\ Len(req.Messages) = 2 /\ req.Messages[1] # req.Messages[2]
  /\ calls[2].Messages = req.Messages
  /\ ret.result # Nil
  /\ ret.result.Warnings = <<ProviderWarning, WarnEmulated>>

\* C10: a decided tool that is not the name of a function-typed tool of
\* the request (also when a tool of another type has that name) fails and
\* returns no tool call.
C10_UnknownToolRejected ==
  (DecisionReplied /\ NamesTool /\ ~IsFunctionTool(decision.toolName)) =>
    /\ pc = "done"
    /\ ret.err = ErrToolNotFound
    /\ ret.result = Nil
    /\ Len(calls) = 1

C10_Witness ==
  /\ pc = "done" /\ NamesTool /\ decision.toolName = Lookup
  /\ \E i \in 1..Len(req.Tools) :
       req.Tools[i].Type # "function" /\ req.Tools[i].Function.Name = Lookup
  /\ ret.err = ErrToolNotFound

\* ---------------------------------------------------------------- C11
\* C11: the orchestrator never mutates the caller's request.  In every
\* state of an invocation, whichever branch it takes, the caller's Messages,
\* Tools, ToolChoice and Options (and Model) hold the values they had on
\* entry, also after the Messages or the Tools of a copy made by
\* cloneChatRequest have been mutated.
C11_CallerRequestUntouched == CallerRequest = req

\* What holds of it: no step of the invocation itself changes the caller's
\* request, and neither does a write that stays in the copy.
C11_StepsLeaveCallerRequest ==
  [][(mem'.writes = mem.writes
       \/ \E c \in 1..Len(mem.clones) : WriteOwn(mem.clones[c]))
       => Deref(mem'.objs, 1) = Deref(mem.objs, 1)]_vars

\* A tool call of a message of a copy has been overwritten, and the
\* caller's request shows it.
C11_SharedToolCallWritten ==
  /\ mem.writes > 0
  /\ \E i \in 1..Len(req.Messages) :
       /\ req.Messages[i].ToolCalls = <<PriorCall>>
       /\ CallerRequest.Messages[i].ToolCalls[1].ID = <<"overwritten">>

\* ---------------------------------------------------------------- C12
\* extractJSONPayload recovers a payload from the text, and the payload is
\* an object.
RecoversObject(text) ==
  /\ extractJSONPayload(text).err = NoErr
  /\ Head(extractJSONPayload(text).payload) = LB

DecisionText == replies[1].result.Text

\* C12: a decision text from which no valid JSON object can be recovered
\* (empty, blank, prose without JSON) makes the parser fail, and the
\* invocation returns that error: it is not taken for a "no tool" decision
\* and no final call is made for it.
C12_UnrecoverableIsHardError ==
  (DecisionReplied /\ ~RecoversObject(DecisionText)) =>
    /\ decision.err # NoErr
    /\ pc = "done"
    /\ Len(calls) = 1
    /\ ret = [result |-> Nil, err |-> decision.err]

\* The texts without an object that the parser does reject.
C12_RejectedExamples ==
  /\ DecisionReplied /\ ~RecoversObject(DecisionText)
  /\ decision.err \in {ErrEmptyDecision, ErrInvalidDecision}
  /\ pc = "done" /\ ret.result = Nil

\* ---------------------------------------------------------------- C13
\* A valid decision object: an object the parser reads a decision from.
IsDecisionObject(J) == Head(J) = LB /\ parseToolDecision(J).err = NoErr

\* J in a fence, in a fence tagged json, in a fence after prose, and
\* between prose that has no braces.
WrappingsOf(J) == {Fenced(J), FencedJson(J), ProseFenced(J), InProse(J)}

SameDecision(d, e) ==
  /\ d.err = e.err
  /\ d.toolName = e.toolName
  /\ d.args = e.args

\* What a text can be a wrapping of: the text without the two, three or
\* five lexemes the wrappings put before J and the two they put after it.
Unwrapped(text) ==
  {SubSeq(text, n + 1, Len(text) - 2) : n \in {2, 3, 5}} \ {<<>>}

\* C13: for every valid decision object J, the parser returns for J in a
\* fence, in a fence tagged json, in such a fence after prose, and between
\* prose without braces, the tool name and arguments it returns for J alone.
C13_WrappedDecisionSame ==
  DecisionReplied =>
    \A J \in Unwrapped(DecisionText) :
      (DecisionText \in WrappingsOf(J) /\ IsDecisionObject(J)) =>
        SameDecision(decision, parseToolDecision(J))

\* No string of J has three backquotes in a row.
TickFree(J) ==
  \A i \in 1..Len(J) :
    J[i].k = "s" => \A n \in 1..Len(J[i].v) : J[i].v[n] # Ticks

\* The part that holds: the four wrappings of a decision object without
\* backquotes in its strings are read as the object alone.
C13_TickFreeDecisionSame ==
  DecisionReplied =>
    \A J \in Unwrapped(DecisionText) :
      (DecisionText \in WrappingsOf(J) /\ IsDecisionObject(J) /\ TickFree(J)) =>
        SameDecision(decision, parseToolDecision(J))

\* The call of get_weather, read from a fence after prose.
C13_Witness ==
  /\ DecisionReplied
  /\ DecisionText = ProseFenced(TokyoCall)
  /\ decision = [toolName |-> GetWeather, args |-> ArgsTokyo, err |-> NoErr]

\* The part that fails: a decision object with three backquotes in a string
\* is read alone and rejected in a leading fence, which ends at them.
C13_TicksEndTheFence ==
  /\ IsDecisionObject(TicksCall)
  /\ (DecisionReplied /\ DecisionText \in {Fenced(TicksCall), FencedJson(TicksCall)})
       => decision.err = ErrInvalidDecision
  /\ (DecisionReplied /\ DecisionText \in {ProseFenced(TicksCall), InProse(TicksCall)})
       => SameDecision(decision, parseToolDecision(TicksCall))

C13_FencedTicksRejected ==
  /\ DecisionReplied
  /\ DecisionText = Fenced(TicksCall)
  /\ decision.err = ErrInvalidDecision

\* ---------------------------------------------------------------- C14
\* C14: the parser accepts the array form.  For an object whose "tools"
\* array has a decision object as its first element it returns what it
\* returns for that element alone, and for an empty "tools" array it
\* returns "no tool decided".
C14_ArrayFormAccepted ==
  DecisionReplied =>
    /\ \A J \in {obj \in Payloads : Head(obj) = LB} :
         (DecisionText = ToolsArrayJSON(J) /\ IsDecisionObject(J)) =>
           SameDecision(decision, parseToolDecision(J))
    /\ DecisionText = ToolsArrayJSON(<<>>) =>
         decision.err = NoErr /\ decision.toolName = <<>>

\* The part that holds: the empty array is read as "no tool decided".
C14_EmptyArrayNoTool ==
  /\ DecisionReplied
  /\ DecisionText = ToolsArrayJSON(<<>>)
  /\ NamesNoTool

\* ---------------------------------------------------------------- C15
\* The invocation returned a result it synthesized from the decision.
Synthesized == pc = "done" /\ NamesTool /\ ret.result # Nil /\ Len(calls) = 1

\* emulated_<unix-nanosecond-timestamp>_<index>
ThreePartID(now, index) == <<"emulated_", ToString(now), "_", ToString(index)>>

\* C15: every synthesized ToolCall has type "function" and an identifier
\* emulated_<timestamp>_<index>, the index being the call's position among
\* the calls synthesized in the invocation, counted from 0.
C15_ThreePartCallID ==
  Synthesized =>
    \A i \in 1..Len(ret.result.ToolCalls) :
      /\ ret.result.ToolCalls[i].Type = "function"
      /\ \E now \in NanoTimes : ret.result.ToolCalls[i].ID = ThreePartID(now, i - 1)

\* What holds of the identifier: the prefix and the timestamp, no index.
C15_TwoPartCallID ==
  /\ Synthesized
  /\ ret.result.ToolCalls[1].Type = "function"
  /\ \E now \in NanoTimes : ret.result.ToolCalls[1].ID = FormatCallID(now)

\* ---------------------------------------------------------------- C16
RECURSIVE NonSystem(_)
\* The messages of a list that do not have the system role, in order.
NonSystem(msgs) ==
  IF msgs = <<>> THEN <<>>
  ELSE IF Head(msgs).Role = RoleSystem THEN NonSystem(Tail(msgs))
  ELSE <<Head(msgs)>> \o NonSystem(Tail(msgs))

SystemCount(msgs) == Cardinality({i \in 1..Len(msgs) : msgs[i].Role = RoleSystem})

\* The decision request has been built and handed to the provider.
DecisionSent == Emulating /\ Len(calls) >= 1

\* C16: the decision request has Tools and ToolChoice cleared and exactly
\* one system message, the decision prompt, in first place, followed by the
\* non-system messages of the caller's request in their order; no system
\* message of the caller's request is in it.
C16_OnlySystemMessageIsPrompt ==
  DecisionSent =>
    /\ calls[1].Tools = <<>>
    /\ calls[1].ToolChoice = Nil
    /\ SystemCount(calls[1].Messages) = 1
    /\ calls[1].Messages =
         <<Msg(RoleSystem, buildToolDecisionPrompt(req).prompt)>>
         \o NonSystem(req.Messages)

\* What holds: the prompt comes first and every message of the caller's
\* request follows it, its system messages included.
C16_PromptPrepended ==
  /\ DecisionSent
  /\ SystemCount(req.Messages) > 0
  /\ calls[1].Tools = <<>> /\ calls[1].ToolChoice = Nil
  /\ calls[1].Messages =
       <<Msg(RoleSystem, buildToolDecisionPrompt(req).prompt)>> \o req.Messages

\* ---------------------------------------------------------------- C17
\* The decision text holds an object, and these are its fields.
ObjectRecovered == DecisionReplied /\ RecoversObject(DecisionText)

RecoveredFields == UnmarshalDecision(extractJSONPayload(DecisionText).payload)

ToolValue == TrimSpace(RecoveredFields.Tool)

\* The tool values the claim names: the two the parser tests for, and null
\* in text form, the string "null", which it does not test for.
ClaimedNullForms == NoToolRaw \cup {<<S(<<"null">>)>>}

C17_NullFormsNoTool ==
  (ObjectRecovered /\ ToolValue \in ClaimedNullForms) =>
    decision.err = NoErr /\ decision.toolName = <<>>

C17_MissingArgsDefault ==
  (ObjectRecovered /\ RecoveredFields.Arguments = <<>> /\ decision.err = NoErr) =>
    decision.args = ArgsEmpty

C17_NonStringToolRejected ==
  (ObjectRecovered /\ ToolValue # <<>> /\ ToolValue # <<NULL>>
     /\ ~(Len(ToolValue) = 1 /\ ToolValue[1].k = "s")) =>
    decision.err # NoErr

\* C17: for a recovered decision object the parser returns "no tool
\* decided" without error when the tool value is JSON null, the empty
\* string or null in text form; it returns the arguments {} when the
\* arguments field is missing; and it returns an error when the tool value
\* is neither a string nor null.
C17_ToolValueForms ==
  /\ C17_NullFormsNoTool
  /\ C17_MissingArgsDefault
  /\ C17_NonStringToolRejected

\* ---------------------------------------------------------------- C18
ConfigurationErrs == {ErrNoFunctionTools}
DecisionParseErrs ==
  {ErrEmptyDecision, ErrInvalidDecision, ErrUnmarshal, ErrToolNotString,
   ErrArgsInvalid}
UnknownToolErrs == {ErrToolNotFound}
EmulationErrs ==
  ConfigurationErrs \cup DecisionParseErrs \cup PolicyViolationErrs
  \cup UnknownToolErrs

\* The calls made when an error of the kind is detected: none before the
\* decision request is built, one after the decision call.
CallsBefore(err) == IF err \in ConfigurationErrs THEN 0 ELSE 1

\* C18: an invocation that ends in a configuration error, a decision parse
\* error, a tool-choice policy violation or an unknown-tool error returns
\* the error with no Result, and no provider call is made once the error
\* is detected: none at all for a configuration error, the decision call
\* only for the others.
C18_EmulationErrorIsFinal ==
  /\ [](/\ ret.err \in EmulationErrs =>
             /\ pc = "done"
             /\ ret.result = Nil
             /\ Len(calls) = CallsBefore(ret.err)
             /\ Len(replies) = Len(calls)
        /\ (Emulating /\ FunctionTools(req.Tools) = <<>> /\ pc # "start") =>
             ret.err \in ConfigurationErrs
        /\ (DecisionReplied /\ decision.err # NoErr) =>
             ret.err = decision.err /\ decision.err \in DecisionParseErrs)
  /\ [][ret.err \in EmulationErrs => calls' = calls /\ ret' = ret]_vars

\* An invocation that ended in a configuration error, and the other kinds.
C18_Witness ==
  /\ pc = "done" /\ ret.err \in ConfigurationErrs
  /\ Len(req.Tools) > 0 /\ calls = <<>> /\ ret.result = Nil

C18_WitnessParse == pc = "done" /\ ret.err \in DecisionParseErrs /\ Len(calls) = 1
C18_WitnessPolicy == pc = "done" /\ ret.err \in PolicyViolationErrs /\ Len(calls) = 1
C18_WitnessUnknown == pc = "done" /\ ret.err \in UnknownToolErrs /\ Len(calls) = 1

====
